---- MODULE Spec2Model ----
(***************************************************************************)
(* Model of the MBTI text-scoring engine                                   *)
(* (src/app/mbti_test/domain/analyzer.py).                                 *)
(*                                                                         *)
(* Text.  An answer is a sequence of characters.  A character is written   *)
(* as a short ASCII string: a Korean syllable is written by its            *)
(* romanisation ("bon" for the syllable of analyzer.py line 34, third      *)
(* entry), punctuation by itself ("?", "!", "~", " "), and "x" is a        *)
(* character that occurs in no keyword, pattern or marker.  "p19" and      *)
(* "p31" stand for a run of 19 and of 31 such neutral characters, so that  *)
(* the length thresholds 20 and 50 of apply_style_correction are reached   *)
(* by short sequences.  A keyword is a sequence of characters and          *)
(* `k["word"] in answer` is contiguous-subsequence containment.            *)
(*                                                                         *)
(* A non-text entry of an answer list (None) is the value NoneAnswer, a     *)
(* one-element sequence whose element is no character of any text.         *)
(***************************************************************************)
EXTENDS Integers, Sequences, FiniteSets, TLC

\* ------------------------------------------------------------------------
\* Bounds of the model
\* ------------------------------------------------------------------------
MaxWords == 3
MaxAnswers == 13
MaxIndex == 14
MaxTotal == 1001
MaxList == 4
MaxFrames == 3

\* ------------------------------------------------------------------------
\* Text primitives
\* ------------------------------------------------------------------------
NoneAnswer == <<"<None>">>

\* isinstance(ans, str)
IsStr(ans) == ans # NoneAnswer

\* Number of Python characters one model character stands for.
Width(c) == IF c = "p19" THEN 19 ELSE IF c = "p31" THEN 31 ELSE 1

RECURSIVE StrLen(_)
\* len(ans)
StrLen(s) == IF s = <<>> THEN 0 ELSE Width(Head(s)) + StrLen(Tail(s))

\* The start positions at which word w occurs in s.
Occurrences(w, s) ==
    {i \in 1..(Len(s) - Len(w) + 1) : SubSeq(s, i, i + Len(w) - 1) = w}

\* `w in s` for strings (w is never empty in the source).
Contains(w, s) == Occurrences(w, s) # {}

\* s.count(w): every counted word of the source is one character long or
\* cannot overlap itself, so the count is the number of start positions.
Count(w, s) == Cardinality(Occurrences(w, s))

\* re.search(r"a|b|c", s) for alternatives that are plain literals.
Search(alts, s) == \E i \in 1..Len(alts) : Contains(alts[i], s)

\* ------------------------------------------------------------------------
\* The lexicon (DICTIONARY, analyzer.py lines 3-143).  The model keeps, for
\* every trait, entries of the source in the source's order: the lightest
\* entry of the trait, entries that the heuristic patterns and the style
\* markers also mention, entries that contain another entry of the same
\* trait, and the entries of one trait that contain an entry of the opposing
\* trait (lines 34 and 52).
\* ------------------------------------------------------------------------
Dimensions == {"EI", "SN", "TF", "JP"}

\* tuple(dimension)
TraitsOf(dim) ==
    CASE dim = "EI" -> <<"E", "I">>
      [] dim = "SN" -> <<"S", "N">>
      [] dim = "TF" -> <<"T", "F">>
      [] dim = "JP" -> <<"J", "P">>

AllTraits == {"E", "I", "S", "N", "T", "F", "J", "P"}

DICTIONARY ==
    [EI |-> [E |-> << [word |-> <<"gat", "i">>, w |-> 5],
                      [word |-> <<"da", "gat", "i">>, w |-> 5],
                      [word |-> <<"tok">>, w |-> 3],
                      [word |-> <<"nol">>, w |-> 4] >>,
             I |-> << [word |-> <<"hon", "ja">>, w |-> 5],
                      [word |-> <<"jo", "yong">>, w |-> 4],
                      [word |-> <<"hon", "ja", "man">>, w |-> 5] >>],
     SN |-> [S |-> << [word |-> <<"jik", "jeop">>, w |-> 3],
                      [word |-> <<"bon">>, w |-> 3],
                      [word |-> <<"gyeong", "heom", "sang">>, w |-> 5] >>,
             N |-> << [word |-> <<"sang", "sang">>, w |-> 5],
                      [word |-> <<"neu", "kkim">>, w |-> 3],
                      [word |-> <<"mwon", "ga">>, w |-> 3],
                      [word |-> <<"bon", "jil">>, w |-> 5],
                      [word |-> <<"geun", "bon">>, w |-> 4] >>],
     TF |-> [T |-> << [word |-> <<"non", "ri">>, w |-> 5],
                      [word |-> <<"wae">>, w |-> 5],
                      [word |-> <<"eo", "tteoh", "ge">>, w |-> 4] >>,
             F |-> << [word |-> <<"gong", "gam">>, w |-> 5],
                      [word |-> <<"jo", "a">>, w |-> 3],
                      [word |-> <<"ul">>, w |-> 4],
                      [word |-> <<"gong", "gam", "hae">>, w |-> 5] >>],
     JP |-> [J |-> << [word |-> <<"gye", "hoek">>, w |-> 5],
                      [word |-> <<"ye", "jeong">>, w |-> 4],
                      [word |-> <<"jeong", "hwak">>, w |-> 3] >>,
             P |-> << [word |-> <<"il", "dan">>, w |-> 5],
                      [word |-> <<"tto">>, w |-> 2],
                      [word |-> <<"il", "dan", "eun">>, w |-> 5] >>]]

\* The object the module global DICTIONARY is bound to.  It is a dict of
\* dicts of lists, which any code holding it could change in place.
VARIABLE lexicon

\* The entries of one trait, DICTIONARY[dim][trait].
Keywords(dim, trait) == lexicon[dim][trait]

RECURSIVE KeywordSum(_, _, _)
\* The weight the loop `for k in keywords: if k["word"] in ans:
\* scores[trait] += k["w"]` adds for the first n entries of one trait.
KeywordSum(keywords, n, ans) ==
    IF n = 0 THEN 0
    ELSE (IF Contains(keywords[n].word, ans) THEN keywords[n].w ELSE 0)
         + KeywordSum(keywords, n - 1, ans)

\* keyword_matched after the lexicon loops of one dimension.
KeywordMatched(dim, ans) ==
    \E t \in {TraitsOf(dim)[1], TraitsOf(dim)[2]} :
        \E i \in 1..Len(Keywords(dim, t)) : Contains(Keywords(dim, t)[i].word, ans)

\* scores[t] -= n
Add_Subtract(scores, t, n) == [scores EXCEPT ![t] = @ - n]

\* scores[t] += n
Add(scores, t, n) == [scores EXCEPT ![t] = @ + n]

\* The lexicon loops of one dimension applied to the accumulator.
MatchLexicon(ans, dim, scores) ==
    LET t1 == TraitsOf(dim)[1]
        t2 == TraitsOf(dim)[2]
        s1 == Add(scores, t1, KeywordSum(Keywords(dim, t1), Len(Keywords(dim, t1)), ans))
    IN  Add(s1, t2, KeywordSum(Keywords(dim, t2), Len(Keywords(dim, t2)), ans))

\* ------------------------------------------------------------------------
\* The heuristic patterns (re.search calls of lines 267-287, 336-356 and
\* 408-428; the three copies are the same patterns and bonuses).
\* ------------------------------------------------------------------------
PatternN == << <<"man", "yak", "e">>, <<"~", "ra", "myeon">>, <<"eo", "jjeo", "myeon">>,
               <<"eon", "jen", "ga">>, <<"mi", "rae", "e">>, <<"ga", "neung", "seong">>,
               <<"sang", "sang">> >>
PatternS == << <<"sil", "je", "ro">>, <<"gyeong", "heom", "sang">>, <<"jik", "jeop">>,
               <<"hae", "bwat">>, <<"bon", " ", "jeok">>,
               <<"hyeon", "sil", "jeok", "eu", "ro">> >>
PatternT == << <<"wae", " ", "geu", "reon", "ji">>, <<"i", "yu", "ga", " ", "mwo", "ya">>,
               <<"non", "ri", "jeok">>, <<"hap", "ri", "jeok">>,
               <<"tta", "jyeo", "bo", "myeon">> >>
PatternF == << <<"gi", "bun", "i">>, <<"ma", "eum", "i">>, <<"gam", "jeong", "jeok">>,
               <<"gong", "gam">>, <<"wi", "ro">>, <<"sok", "sang">>, <<"seo", "un">> >>
PatternJ == << <<"gye", "hoek">>, <<"mi", "ri">>, <<"seu", "ke", "jul">>, <<"ye", "yak">>,
               <<"jeong", "hae">>, <<"che", "keu", "ri", "seu", "teu">> >>
PatternP == << <<"jeuk", "heung">>, <<"il", "dan">>, <<"sang", "hwang", " ", "bwa", "seo">>,
               <<"geu", "ttae", " ", "ga", "seo">>, <<"na", "jung", "e">>,
               <<"dae", "chung">> >>

\* The pattern of one side (1 or 2) of a dimension.
PatternOf(dim, side) ==
    CASE dim = "SN" -> IF side = 1 THEN PatternS ELSE PatternN
      [] dim = "TF" -> IF side = 1 THEN PatternT ELSE PatternF
      [] dim = "JP" -> IF side = 1 THEN PatternJ ELSE PatternP
      [] OTHER -> <<>>

\* The bonus a matching pattern adds (scores[...] += 3 or 4).
HeuristicBonus(dim) ==
    CASE dim = "SN" -> 3
      [] dim = "TF" -> 4
      [] dim = "JP" -> 3
      [] OTHER -> 0

\* keyword_matched contribution of the `if dim == ...: if re.search(...)` blocks.
HeuristicMatched(dim, ans) ==
    Search(PatternOf(dim, 1), ans) \/ Search(PatternOf(dim, 2), ans)

\* The `if dim == ...: if re.search(...)` blocks applied to the accumulator.
ApplyHeuristics(ans, dim, scores) ==
    IF dim \notin {"SN", "TF", "JP"} THEN scores
    ELSE LET t1 == TraitsOf(dim)[1]
             t2 == TraitsOf(dim)[2]
             \* the source tests the side-two pattern of SN first; the two
             \* additions commute
             s1 == IF Search(PatternOf(dim, 2), ans)
                   THEN Add(scores, t2, HeuristicBonus(dim)) ELSE scores
         IN  IF Search(PatternOf(dim, 1), ans)
             THEN Add(s1, t1, HeuristicBonus(dim)) ELSE s1

\* ------------------------------------------------------------------------
\* The style corrector (apply_style_correction, lines 198-237)
\* ------------------------------------------------------------------------
abstract_words == << <<"geot">>, <<"geo">>, <<"mwon", "ga">>, <<"neu", "kkim">>,
                     <<"gat", "eun">>, <<"deut">> >>
concrete_words == << <<"beon">>, <<"gae">>, <<"myeong">>, <<"si">>, <<"bun">>, <<"hoe">> >>
exclamations == << <<"!">>, <<"yu_">>, <<"u_">>, <<"h_">>, <<"k_">>, <<"heart1">>,
                   <<"heart2">>, <<"cry1">>, <<"cry2">>, <<"hearts">> >>
decisive_words == << <<"hae", "ya">>, <<"hal", " ", "geo", "ya">>, <<"hal", "ge">>,
                     <<"ye", "jeong">>, <<"ban", "deu", "si">>, <<"kkok">> >>
uncertain_words == << <<"a", "ma">>, <<"geul", "sse">>, <<"mo", "reu", "get">>,
                      <<"doel", " ", "deut">>, <<"il", "dan">>, <<"eo", "jjeo", "myeon">> >>

\* sum(w in ans for w in words)
CountPresent(words, ans) ==
    Cardinality({i \in 1..Len(words) : Contains(words[i], ans)})

RECURSIVE CountAll(_, _, _)
\* sum(ans.count(e) for e in words), over the first n words
CountAll(words, n, ans) ==
    IF n = 0 THEN 0 ELSE Count(words[n], ans) + CountAll(words, n - 1, ans)

\* if dim == "EI": ... (lines 201-205), with the thresholds off by one
StyleEI_OffByOne(ans, scores) ==
    LET ans_len == StrLen(ans)
    IN  IF ans_len >= 50 THEN Add(scores, "E", 1)
        ELSE IF ans_len <= 20 THEN Add(scores, "I", 1)
        ELSE scores

\* if dim == "EI": ... (lines 201-205)
StyleEI(ans, scores) ==
    LET ans_len == StrLen(ans)
    IN  IF ans_len > 50 THEN Add(scores, "E", 1)
        ELSE IF ans_len < 20 THEN Add(scores, "I", 1)
        ELSE scores

\* if dim == "SN": ... (lines 207-216)
StyleSN(ans, scores) ==
    LET abstract_count == CountPresent(abstract_words, ans)
        concrete_count == CountPresent(concrete_words, ans)
        s1 == IF abstract_count >= 2 THEN Add(scores, "N", 1) ELSE scores
    IN  IF concrete_count >= 2 THEN Add(s1, "S", 1) ELSE s1

\* if dim == "TF": ... (lines 218-228)
StyleTF(ans, scores) ==
    LET question_indicators == Count(<<"?">>, ans) + Count(<<"eo", "tteoh", "ge">>, ans)
                               + Count(<<"wae">>, ans)
        exclamation_count == CountAll(exclamations, Len(exclamations), ans)
        s1 == IF question_indicators >= 2 THEN Add(scores, "T", 1) ELSE scores
    IN  IF exclamation_count >= 3 THEN Add(s1, "F", 2)
        ELSE IF exclamation_count >= 1 THEN Add(s1, "F", 1)
        ELSE s1

\* if dim == "JP": ... (lines 230-237)
StyleJP(ans, scores) ==
    LET s1 == IF \E i \in 1..Len(decisive_words) : Contains(decisive_words[i], ans)
              THEN Add(scores, "J", 1) ELSE scores
    IN  IF CountPresent(uncertain_words, ans) >= 1 THEN Add(s1, "P", 1) ELSE s1

apply_style_correction(ans, dim, scores) ==
    LET s1 == IF dim = "EI" THEN StyleEI(ans, scores) ELSE scores
        s2 == IF dim = "SN" THEN StyleSN(ans, s1) ELSE s1
        s3 == IF dim = "TF" THEN StyleTF(ans, s2) ELSE s2
    IN  IF dim = "JP" THEN StyleJP(ans, s3) ELSE s3

\* ------------------------------------------------------------------------
\* The dimension of a question index: the module defines the function
\* twice (lines 151-160 and 382-392).
\* ------------------------------------------------------------------------
get_dimension_for_question_1(question_index) ==
    IF question_index < 3 THEN "EI"
    ELSE IF question_index < 6 THEN "SN"
    ELSE IF question_index < 9 THEN "TF"
    ELSE "JP"

get_dimension_for_question_2(question_index) ==
    IF question_index < 3 THEN "EI"
    ELSE IF question_index < 6 THEN "SN"
    ELSE IF question_index < 9 THEN "TF"
    ELSE IF question_index < 12 THEN "JP"
    ELSE ""

\* The comparison with > in place of >=: a tie goes to side two.
Winner_TieToSideTwo(dim, scores) ==
    IF scores[TraitsOf(dim)[1]] > scores[TraitsOf(dim)[2]]
    THEN TraitsOf(dim)[1] ELSE TraitsOf(dim)[2]

\* side = trait1 if scores[trait1] >= scores[trait2] else trait2
\* (lines 297-312, 363-366, 436; the first analyze_single_answer, lines
\* 178-189, writes the same comparison once per dimension)
Winner(dim, scores) ==
    IF scores[TraitsOf(dim)[1]] >= scores[TraitsOf(dim)[2]]
    THEN TraitsOf(dim)[1] ELSE TraitsOf(dim)[2]

\* ------------------------------------------------------------------------
\* The per-answer scorer: the module defines it twice (lines 163-195 and
\* 394-439).  dimension ranges over the four dimensions.
\* ------------------------------------------------------------------------
analyze_single_answer_1(answer, dimension) ==
    LET scores0 == [k \in AllTraits |-> 0]
        scores1 == MatchLexicon(answer, dimension, scores0)
        scores == apply_style_correction(answer, dimension, scores1)
        side == Winner(dimension, scores)
        t1 == TraitsOf(dimension)[1]
        t2 == TraitsOf(dimension)[2]
    IN  [scores |-> scores,
         side |-> side,
         score |-> IF scores[t1] >= scores[t2] THEN scores[t1] ELSE scores[t2]]

\* The second definition with the style corrector not gated for EI.
analyze_single_answer_2_UngatedEI(answer, dimension) ==
    LET scores0 == [k \in {TraitsOf(dimension)[1], TraitsOf(dimension)[2]} |-> 0]
        scores1 == MatchLexicon(answer, dimension, scores0)
        scores2 == ApplyHeuristics(answer, dimension, scores1)
        keyword_matched == KeywordMatched(dimension, answer)
                           \/ HeuristicMatched(dimension, answer)
        scores == IF ~keyword_matched \/ dimension = "EI"
                  THEN apply_style_correction(answer, dimension, scores2)
                  ELSE scores2
        side == Winner(dimension, scores)
    IN  [scores |-> scores, side |-> side, score |-> scores[side]]

analyze_single_answer_2(answer, dimension) ==
    LET scores0 == [k \in {TraitsOf(dimension)[1], TraitsOf(dimension)[2]} |-> 0]
        scores1 == MatchLexicon(answer, dimension, scores0)
        scores2 == ApplyHeuristics(answer, dimension, scores1)
        keyword_matched == KeywordMatched(dimension, answer)
                           \/ HeuristicMatched(dimension, answer)
        scores == IF ~keyword_matched
                  THEN apply_style_correction(answer, dimension, scores2)
                  ELSE scores2
        side == Winner(dimension, scores)
    IN  [scores |-> scores, side |-> side, score |-> scores[side]]

\* ------------------------------------------------------------------------
\* The session scorers.  Both are one loop over enumerate(answers) that
\* folds the answers into one accumulator, so the accumulator for
\* answers + [ans] is one more iteration on the accumulator for answers.
\* ------------------------------------------------------------------------
ZeroScores == [k \in AllTraits |-> 0]

\* One iteration of calculate_partial_mbti without the heuristic patterns.
PartialIteration_NoHeuristics(scores, i, ans) ==
    LET dim == IF i < 3 THEN "EI"
               ELSE IF i < 6 THEN "SN"
               ELSE IF i < 9 THEN "TF"
               ELSE IF i < 12 THEN "JP"
               ELSE ""
    IN  IF dim = "" THEN scores
        ELSE IF ~IsStr(ans) THEN scores
        ELSE LET scores1 == MatchLexicon(ans, dim, scores)
             IN  IF ~KeywordMatched(dim, ans)
                 THEN apply_style_correction(ans, dim, scores1)
                 ELSE scores1

\* One iteration of the loop of calculate_partial_mbti (lines 243-291).
PartialIteration(scores, i, ans) ==
    LET dim == IF i < 3 THEN "EI"
               ELSE IF i < 6 THEN "SN"
               ELSE IF i < 9 THEN "TF"
               ELSE IF i < 12 THEN "JP"
               ELSE ""
    IN  IF dim = "" THEN scores
        ELSE IF ~IsStr(ans) THEN scores
        ELSE LET scores1 == MatchLexicon(ans, dim, scores)
                 scores2 == ApplyHeuristics(ans, dim, scores1)
                 keyword_matched == KeywordMatched(dim, ans) \/ HeuristicMatched(dim, ans)
             IN  IF ~keyword_matched
                 THEN apply_style_correction(ans, dim, scores2)
                 ELSE scores2

\* partial_mbti with each dimension unlocked one answer late.
PartialLabel_Late(len, scores) ==
    IF len > 0
    THEN << IF len > 3 THEN Winner("EI", scores) ELSE "X",
            IF len > 6 THEN Winner("SN", scores) ELSE "X",
            IF len > 9 THEN Winner("TF", scores) ELSE "X",
            IF len > 12 THEN Winner("JP", scores) ELSE "X" >>
    ELSE <<"X", "X", "X", "X">>

\* partial_mbti of calculate_partial_mbti (lines 293-316) for len(answers) = len.
PartialLabel(len, scores) ==
    IF len > 0
    THEN << IF len >= 3 THEN Winner("EI", scores) ELSE "X",
            IF len >= 6 THEN Winner("SN", scores) ELSE "X",
            IF len >= 9 THEN Winner("TF", scores) ELSE "X",
            IF len >= 12 THEN Winner("JP", scores) ELSE "X" >>
    ELSE <<"X", "X", "X", "X">>

\* dim of run_analysis (line 325)
RunDimension(i) ==
    IF i < 3 THEN "EI" ELSE IF i < 6 THEN "SN" ELSE IF i < 9 THEN "TF" ELSE "JP"

\* `k["word"] in ans` (line 331) raises TypeError when ans is not a string.
RunIterationRaises(ans) == ~IsStr(ans)

\* One iteration of run_analysis with the style corrector applied whether
\* or not a keyword or pattern matched.
RunIteration_Ungated(scores, i, ans) ==
    LET dim == RunDimension(i)
        scores1 == MatchLexicon(ans, dim, scores)
        scores2 == ApplyHeuristics(ans, dim, scores1)
    IN  apply_style_correction(ans, dim, scores2)

\* One iteration of the loop of run_analysis (lines 324-360) that does not raise.
RunIteration(scores, i, ans) ==
    LET dim == RunDimension(i)
        scores1 == MatchLexicon(ans, dim, scores)
        scores2 == ApplyHeuristics(ans, dim, scores1)
        keyword_matched == KeywordMatched(dim, ans) \/ HeuristicMatched(dim, ans)
    IN  IF ~keyword_matched
        THEN apply_style_correction(ans, dim, scores2)
        ELSE scores2

\* res_mbti of run_analysis (lines 362-367)
FinalLabel(scores) ==
    << Winner("EI", scores), Winner("SN", scores),
       Winner("TF", scores), Winner("JP", scores) >>

\* abs(a - b)
Abs(x) == IF x < 0 THEN -x ELSE x

\* get_conf (lines 369-370): round((abs(a - b) / (a + b + 0.1)) * 100, 1), as
\* a number of tenths.  The quotient is 10000*|a-b| / (10*(a+b)+1) tenths;
\* it is never halfway between two integers (the numerator doubled is even,
\* the denominator is odd), so rounding half to even and half up agree.
get_conf(a, b) ==
    LET num == 10000 * Abs(a - b)
        den == 10 * (a + b) + 1
    IN  (2 * num + den) \div (2 * den)

\* confidence of run_analysis (lines 372-377)
Confidence(scores) ==
    [EI |-> get_conf(scores["E"], scores["I"]),
     SN |-> get_conf(scores["S"], scores["N"]),
     TF |-> get_conf(scores["T"], scores["F"]),
     JP |-> get_conf(scores["J"], scores["P"])]

\* ------------------------------------------------------------------------
\* Inputs of the model
\* ------------------------------------------------------------------------
\* The answers a session submits at the positions of one dimension: an
\* answer with no lexicon or pattern match on which the style corrector
\* fires, an answer with a match that also carries style markers, and the
\* non-text entry.
SessionAnswers(dim) ==
    CASE dim = "EI" -> { <<"x">>, <<"p31", "p19", "nol">>, NoneAnswer }
      [] dim = "SN" -> { <<"geot", "deut">>, <<"bon", "beon", "gae">>, NoneAnswer }
      [] dim = "TF" -> { <<"!", "?", "?">>, <<"wae", "!">>, NoneAnswer }
      [] dim = "JP" -> { <<"a", "ma">>, <<"gye", "hoek", "kkok">>, NoneAnswer }

\* The words the answers of the per-answer calls are built from.
Vocabulary(dim) ==
    CASE dim = "EI" -> { <<"nol">>, <<"hon", "ja">>, <<"man">>, <<"p19">>, <<"p31">>, <<"x">> }
      [] dim = "SN" -> { <<"bon">>, <<"jil">>, <<"geun">>, <<"~", "ra", "myeon">>,
                         <<"geot">>, <<"deut">>, <<"beon">>, <<"gae">> }
      [] dim = "TF" -> { <<"wae">>, <<"gong", "gam">>, <<"non", "ri">>, <<"jeok">>,
                         <<"?">>, <<"!">>, <<"x">> }
      [] dim = "JP" -> { <<"gye", "hoek">>, <<"il", "dan">>, <<"eun">>, <<"tto">>,
                         <<"kkok">>, <<"a", "ma">>, <<"x">> }

RECURSIVE Concat(_, _)
\* The concatenation of the first k words of a sequence of words.
Concat(words, k) == IF k = 0 THEN <<>> ELSE Concat(words, k - 1) \o words[k]

\* Every text of at most MaxWords words of the vocabulary.
SingleAnswers(dim) ==
    UNION { {Concat(ws, k) : ws \in [1..k -> Vocabulary(dim)]} : k \in 0..MaxWords }

\* ------------------------------------------------------------------------
\* State
\* ------------------------------------------------------------------------
VARIABLES
    loaded,     \* how many of the two blocks of definitions the import has bound
    n,          \* len(answers) of the session
    last,       \* answers[n-1], the answer submitted last
    pscores,    \* scores of calculate_partial_mbti(answers)
    pprev,      \* scores of calculate_partial_mbti(answers[:-1])
    fscores,    \* scores of run_analysis(answers), when it does not raise
    fprev,      \* scores of run_analysis(answers[:-1])
    fraised,    \* run_analysis(answers) raises TypeError
    single,     \* analyze_single_answer(last, dimension of index n-1)
    ssum,       \* sum of the scores of the per-answer calls of indexes 0..11
    call,       \* the call in progress or returned last, outside a session
    prevcall,   \* the per-answer call made before a keyword was added
    earlier,    \* a returned call a caller kept, and whether others followed
    pc,                 \* where websocket_endpoint is for one connection
    chat_room,          \* chat_room, user1_id and user2_id of the handler
    connected_user_id,  \* connected_user_id of the handler
    frame,              \* the text frame receive_text returned last
    frames,             \* how many frames the connection has delivered
    message,            \* sender_id, content and message_id of the iteration
    next_id,            \* the uuid4 values drawn so far
    errors,             \* how many error replies send_json has sent
    saved,              \* the rows of the chat message table
    broadcasts,         \* the messages handed to manager.broadcast
    registered,         \* the user the connection manager has for the socket
    match_state         \* the match state of every user in redis

vars == <<loaded, lexicon, n, last, pscores, pprev, fscores, fprev, fraised,
          single, ssum, call, prevcall, earlier,
          pc, chat_room, connected_user_id, frame, frames, message, next_id,
          errors, saved, broadcasts, registered, match_state>>

sessionVars == <<n, last, pscores, pprev, fscores, fprev, fraised, single, ssum>>

chatVars == <<pc, chat_room, connected_user_id, frame, frames, message, next_id,
              errors, saved, broadcasts, registered, match_state>>

scoringVars == <<loaded, lexicon, sessionVars, call, prevcall, earlier>>

NoCall == [fn |-> "none"]

\* The name stays bound to the first definition.
get_dimension_for_question_FirstWins(question_index) ==
    get_dimension_for_question_1(question_index)

\* The definition a name is bound to: a later def statement rebinds it.
get_dimension_for_question(question_index) ==
    IF loaded = 1 THEN get_dimension_for_question_1(question_index)
    ELSE get_dimension_for_question_2(question_index)

analyze_single_answer(answer, dimension) ==
    IF loaded = 1 THEN analyze_single_answer_1(answer, dimension)
    ELSE analyze_single_answer_2(answer, dimension)

\* scores1 + scores2, trait by trait
Plus(scores1, scores2) == [k \in AllTraits |-> scores1[k] + scores2[k]]

\* The scores of a per-answer call with the traits it does not return at 0.
Widen(scores) ==
    [k \in AllTraits |-> IF k \in DOMAIN scores THEN scores[k] ELSE 0]

\* The return value of calculate_partial_mbti(answers) (line 318).
calculate_partial_mbti == [mbti |-> PartialLabel(n, pscores), scores |-> pscores]

\* The outcome of run_analysis(answers) (line 379).
run_analysis ==
    IF fraised THEN [raised |-> "TypeError"]
    ELSE [raised |-> "", mbti |-> FinalLabel(fscores), scores |-> fscores,
          confidence |-> Confidence(fscores)]

SessionInit ==
    /\ n = 0
    /\ last = NoneAnswer
    /\ pscores = ZeroScores
    /\ pprev = ZeroScores
    /\ fscores = ZeroScores
    /\ fprev = ZeroScores
    /\ fraised = FALSE
    /\ single = NoCall
    /\ ssum = ZeroScores

\* None
NoneValue == "<None>"

\* `not x` for a value that is None or a string
Falsy(x) == x = NoneValue \/ x = ""

\* The users of the service.
Users == {"u1", "u2", "u3"}

NoRoom == [found |-> FALSE, user1_id |-> NoneValue, user2_id |-> NoneValue]

NoMessage == [message_id |-> -1, sender_id |-> NoneValue, content |-> NoneValue]

NoFrame == [kind |-> "none", sender_id |-> NoneValue, content |-> NoneValue]

\* A client is about to open the socket: the handler has not started, the
\* message table is empty and the users come from a match.
ChatInit ==
    /\ pc = "start"
    /\ chat_room = NoRoom
    /\ connected_user_id = NoneValue
    /\ frame = NoFrame
    /\ frames = 0
    /\ message = NoMessage
    /\ next_id = 0
    /\ errors = 0
    /\ saved = {}
    /\ broadcasts = {}
    /\ registered = NoneValue
    /\ match_state = [u \in Users |-> "matched"]

Init ==
    /\ loaded = 0
    /\ lexicon = DICTIONARY
    /\ SessionInit
    /\ call = NoCall
    /\ prevcall = NoCall
    /\ earlier = NoCall
    /\ ChatInit

\* The import executes the def statements of lines 151-379.
LoadFirstDefinitions ==
    /\ loaded = 0
    /\ loaded' = 1
    /\ UNCHANGED <<lexicon, sessionVars, call, prevcall, earlier, chatVars>>

\* The import executes the def statements of lines 382-439, which rebind
\* get_dimension_for_question and analyze_single_answer.
LoadSecondDefinitions ==
    /\ loaded = 1
    /\ loaded' = 2
    /\ UNCHANGED <<lexicon, sessionVars, call, prevcall, earlier, chatVars>>

\* The session receives the answer to question n: the answer is scored on
\* its own with the dimension of its index, and both session scorers see
\* the list with the answer appended.
SubmitAnswer(ans) ==
    /\ loaded = 2
    /\ n < MaxAnswers
    /\ ans \in SessionAnswers(RunDimension(n))
    /\ n' = n + 1
    /\ last' = ans
    /\ pprev' = pscores
    /\ pscores' = PartialIteration(pscores, n, ans)
    /\ fprev' = fscores
    /\ fraised' = (fraised \/ RunIterationRaises(ans))
    /\ fscores' = IF fraised \/ RunIterationRaises(ans) THEN fscores
                  ELSE RunIteration(fscores, n, ans)
    /\ single' = IF IsStr(ans) /\ get_dimension_for_question(n) # ""
                 THEN analyze_single_answer(ans, get_dimension_for_question(n))
                 ELSE NoCall
    /\ ssum' = IF IsStr(ans) /\ get_dimension_for_question(n) # ""
               THEN Plus(ssum, Widen(analyze_single_answer(
                                         ans, get_dimension_for_question(n)).scores))
               ELSE ssum
    /\ UNCHANGED <<loaded, lexicon, call, prevcall, earlier, chatVars>>

Next ==
    \/ LoadFirstDefinitions
    \/ LoadSecondDefinitions
    \/ \E dim \in Dimensions : \E ans \in SessionAnswers(dim) : SubmitAnswer(ans)

Spec == Init /\ [][Next]_vars

\* ------------------------------------------------------------------------
\* Calls of the module's functions outside a session
\* ------------------------------------------------------------------------
\* get_dimension_for_question(question_index) is called and returns.
CallGetDimension(question_index) ==
    /\ loaded = 2
    /\ call = NoCall
    /\ call' = [fn |-> "get_dimension_for_question",
                question_index |-> question_index,
                ret |-> get_dimension_for_question(question_index)]
    /\ UNCHANGED <<loaded, lexicon, sessionVars, prevcall, earlier, chatVars>>

\* analyze_single_answer(answer, dimension) is called, deletes the lexicon
\* entries of the dimension it went through, and returns.
CallAnalyzeSingleAnswer_Consuming(answer, dimension) ==
    /\ loaded = 2
    /\ call = NoCall
    /\ call' = [fn |-> "analyze_single_answer", answer |-> answer,
                dimension |-> dimension,
                ret |-> analyze_single_answer(answer, dimension)]
    /\ lexicon' = [lexicon EXCEPT ![dimension] =
                       [t \in DOMAIN lexicon[dimension] |-> <<>>]]
    /\ UNCHANGED <<loaded, sessionVars, prevcall, earlier, chatVars>>

\* analyze_single_answer(answer, dimension) is called and returns.
CallAnalyzeSingleAnswer(answer, dimension) ==
    /\ loaded = 2
    /\ call = NoCall
    /\ call' = [fn |-> "analyze_single_answer", answer |-> answer,
                dimension |-> dimension,
                ret |-> analyze_single_answer(answer, dimension)]
    /\ UNCHANGED <<loaded, lexicon, sessionVars, prevcall, earlier, chatVars>>

\* The answer of the last per-answer call gets one more occurrence of a
\* lexicon keyword of its dimension, at its end or at its start, and is
\* scored again.
AddKeyword(trait, atEnd) ==
    /\ loaded = 2
    /\ call.fn = "analyze_single_answer"
    /\ prevcall = NoCall
    /\ trait \in {TraitsOf(call.dimension)[1], TraitsOf(call.dimension)[2]}
    /\ \E i \in 1..Len(Keywords(call.dimension, trait)) :
           LET word == Keywords(call.dimension, trait)[i].word
               answer == IF atEnd THEN call.answer \o word ELSE word \o call.answer
           IN  /\ prevcall' = [fn |-> call.fn, answer |-> call.answer,
                               dimension |-> call.dimension, ret |-> call.ret,
                               trait |-> trait, word |-> word]
               /\ call' = [fn |-> "analyze_single_answer", answer |-> answer,
                           dimension |-> call.dimension,
                           ret |-> analyze_single_answer(answer, call.dimension)]
    /\ UNCHANGED <<loaded, lexicon, sessionVars, earlier, chatVars>>

\* Two call records are calls of the same function with the same arguments.
SameInput(call1, call2) ==
    /\ call1.fn = call2.fn
    /\ [call1 EXCEPT !.ret = 0] = [call2 EXCEPT !.ret = 0]

\* The caller is done with the returned value.  A caller that kept the
\* value of an earlier call has by now seen a call with other arguments.
Return ==
    /\ call # NoCall
    /\ call' = NoCall
    /\ prevcall' = NoCall
    /\ earlier' = IF earlier # NoCall /\ ~SameInput(earlier.kept, call)
                  THEN [earlier EXCEPT !.others = TRUE]
                  ELSE earlier
    /\ UNCHANGED <<loaded, lexicon, sessionVars, chatVars>>

NextCalls ==
    \/ LoadFirstDefinitions
    \/ LoadSecondDefinitions
    \/ \E question_index \in 0..MaxIndex : CallGetDimension(question_index)
    \/ \E dimension \in Dimensions : \E answer \in SingleAnswers(dimension) :
           CallAnalyzeSingleAnswer(answer, dimension)
    \/ \E trait \in AllTraits : \E atEnd \in BOOLEAN : AddKeyword(trait, atEnd)
    \/ Return

SpecCalls == Init /\ [][NextCalls]_vars

\* get_conf is called with two trait totals.
InitConf ==
    /\ loaded = 2
    /\ lexicon = DICTIONARY
    /\ SessionInit
    /\ prevcall = NoCall
    /\ earlier = NoCall
    /\ ChatInit
    /\ \E a \in 0..MaxTotal : \E b \in 0..MaxTotal :
           call = [fn |-> "get_conf", a |-> a, b |-> b, ret |-> -1]

\* get_conf returns.
ReturnConf ==
    /\ call.fn = "get_conf"
    /\ call.ret = -1
    /\ call' = [call EXCEPT !.ret = get_conf(call.a, call.b)]
    /\ UNCHANGED <<loaded, lexicon, sessionVars, prevcall, earlier, chatVars>>

NextConf == ReturnConf

SpecConf == InitConf /\ [][NextConf]_vars

\* ------------------------------------------------------------------------
\* Scoring calls made one after another by the callers of the module
\* ------------------------------------------------------------------------
\* The entries of the answer lists of the session calls: of the answers of
\* a session, the text with a match and the non-text entry.
ListAnswers(dim) ==
    SessionAnswers(dim) \ { <<"x">>, <<"geot", "deut">>, <<"!", "?", "?">>, <<"a", "ma">> }

RECURSIVE ListsOfLen(_)
\* The answer lists of k entries, each entry from the answers of the
\* dimension run_analysis gives its index.
ListsOfLen(k) ==
    IF k = 0 THEN { <<>> }
    ELSE { Append(l, a) : l \in ListsOfLen(k - 1),
                          a \in ListAnswers(RunDimension(k - 1)) }

AnswerLists == UNION { ListsOfLen(k) : k \in 0..MaxList }

RECURSIVE PartialScores(_, _)
\* scores of calculate_partial_mbti after the first k iterations of its loop
\* (line 241, then lines 243-291).
PartialScores(answers, k) ==
    IF k = 0 THEN ZeroScores
    ELSE PartialIteration(PartialScores(answers, k - 1), k - 1, answers[k])

RECURSIVE RunScores(_, _)
\* scores of run_analysis after the first k iterations of its loop
\* (line 322, then lines 324-360), when none of them raises.
RunScores(answers, k) ==
    IF k = 0 THEN ZeroScores
    ELSE RunIteration(RunScores(answers, k - 1), k - 1, answers[k])

\* calculate_partial_mbti(answers)
calculate_partial_mbti_of(answers) ==
    LET scores == PartialScores(answers, Len(answers))
    IN  [mbti |-> PartialLabel(Len(answers), scores), scores |-> scores]

\* run_analysis(answers)
run_analysis_of(answers) ==
    IF \E k \in 1..Len(answers) : RunIterationRaises(answers[k])
    THEN [raised |-> "TypeError"]
    ELSE LET scores == RunScores(answers, Len(answers))
         IN  [raised |-> "", mbti |-> FinalLabel(scores), scores |-> scores,
              confidence |-> Confidence(scores)]

\* calculate_partial_mbti(answers) is called and returns.
CallCalculatePartial(answers) ==
    /\ loaded = 2
    /\ call = NoCall
    /\ call' = [fn |-> "calculate_partial_mbti", answers |-> answers,
                ret |-> calculate_partial_mbti_of(answers)]
    /\ UNCHANGED <<loaded, lexicon, sessionVars, prevcall, earlier, chatVars>>

\* run_analysis(answers) is called and returns or raises.
CallRunAnalysis(answers) ==
    /\ loaded = 2
    /\ call = NoCall
    /\ call' = [fn |-> "run_analysis", answers |-> answers,
                ret |-> run_analysis_of(answers)]
    /\ UNCHANGED <<loaded, lexicon, sessionVars, prevcall, earlier, chatVars>>

\* The caller keeps the value the call returned.
KeepResult ==
    /\ earlier = NoCall
    /\ call # NoCall
    /\ earlier' = [kept |-> call, others |-> FALSE]
    /\ UNCHANGED <<loaded, lexicon, sessionVars, call, prevcall, chatVars>>

NextRepeat ==
    \/ LoadFirstDefinitions
    \/ LoadSecondDefinitions
    \/ \E dimension \in Dimensions :
           \E answer \in SessionAnswers(dimension) \ {NoneAnswer} :
               CallAnalyzeSingleAnswer(answer, dimension)
    \/ \E answers \in AnswerLists : CallCalculatePartial(answers)
    \/ \E answers \in AnswerLists : CallRunAnalysis(answers)
    \/ KeepResult
    \/ Return

SpecRepeat == Init /\ [][NextRepeat]_vars

\* ------------------------------------------------------------------------
\* The chat WebSocket handler (chat_websocket_router.py), one connection
\* ------------------------------------------------------------------------
\* The text frames a client sends: a JSON object with or without a
\* sender_id and a content, a text that is not JSON, and a JSON value that
\* is not an object.
Frames ==
    { [kind |-> "object", sender_id |-> s, content |-> c] :
          s \in Users \cup {"", NoneValue}, c \in {"hi", "", NoneValue} }
    \cup { [kind |-> "malformed", sender_id |-> NoneValue, content |-> NoneValue],
           [kind |-> "nonobject", sender_id |-> NoneValue, content |-> NoneValue] }

\* The row of the room in the chat room table.
StoredRoom == [found |-> TRUE, user1_id |-> "u1", user2_id |-> "u2"]

\* [user1_id, user2_id] (line 69)
Participants == {chat_room.user1_id, chat_room.user2_id}

\* match_state.set_chatting(user_id, room_id) under `if user_id:` (lines 24-30)
set_user_chatting(user_id) ==
    IF Falsy(user_id) THEN match_state
    ELSE [match_state EXCEPT ![user_id] = "chatting"]

\* match_state.clear_state(user_id) under `if user_id:` (lines 15-21)
clear_user_state(user_id) ==
    IF Falsy(user_id) THEN match_state
    ELSE [match_state EXCEPT ![user_id] = "none"]

\* manager.disconnect(websocket, room_id): the user registered for the socket.
manager_disconnect == registered

\* Lines 35-53: the socket is accepted and the room is looked up; without a
\* room the handler replies with an error, closes and returns.
Connect(found) ==
    /\ pc = "start"
    /\ IF found
       THEN /\ chat_room' = StoredRoom
            /\ pc' = "receive"
            /\ errors' = errors
       ELSE /\ chat_room' = NoRoom
            /\ pc' = "done"
            /\ errors' = errors + 1
    /\ UNCHANGED <<connected_user_id, frame, frames, message, next_id, saved,
                   broadcasts, registered, match_state, scoringVars>>

\* One iteration with the participant check of lines 69-71 left out.
ReceiveMessage_NoParticipantCheck(data) ==
    /\ pc = "receive"
    /\ frames < MaxFrames
    /\ frame' = data
    /\ frames' = frames + 1
    /\ IF data.kind # "object"
       THEN /\ pc' = "done"
            /\ UNCHANGED <<connected_user_id, message, next_id, errors,
                           registered, match_state>>
       ELSE IF Falsy(data.sender_id) \/ Falsy(data.content)
       THEN /\ errors' = errors + 1
            /\ UNCHANGED <<pc, connected_user_id, message, next_id,
                           registered, match_state>>
       ELSE /\ IF connected_user_id = NoneValue
               THEN /\ connected_user_id' = data.sender_id
                    /\ registered' = data.sender_id
                    /\ match_state' = set_user_chatting(data.sender_id)
               ELSE UNCHANGED <<connected_user_id, registered, match_state>>
            /\ message' = [message_id |-> next_id, sender_id |-> data.sender_id,
                           content |-> data.content]
            /\ next_id' = next_id + 1
            /\ pc' = "save"
            /\ errors' = errors
    /\ UNCHANGED <<chat_room, saved, broadcasts, scoringVars>>

\* Lines 58-80: a frame arrives.  json.loads raises on a text that is not
\* JSON and .get raises on a value that is not an object; neither exception
\* is a WebSocketDisconnect, so the handler ends.  A frame without sender_id
\* or content, or from a user outside the room, gets an error reply and the
\* loop continues.  The first accepted frame registers its sender and sets
\* the chatting state; an accepted frame gets a fresh message id.
ReceiveMessage(data) ==
    /\ pc = "receive"
    /\ frames < MaxFrames
    /\ frame' = data
    /\ frames' = frames + 1
    /\ IF data.kind # "object"
       THEN /\ pc' = "done"
            /\ UNCHANGED <<connected_user_id, message, next_id, errors,
                           registered, match_state>>
       ELSE IF Falsy(data.sender_id) \/ Falsy(data.content)
       THEN /\ errors' = errors + 1
            /\ UNCHANGED <<pc, connected_user_id, message, next_id,
                           registered, match_state>>
       ELSE IF data.sender_id \notin Participants
       THEN /\ errors' = errors + 1
            /\ UNCHANGED <<pc, connected_user_id, message, next_id,
                           registered, match_state>>
       ELSE /\ IF connected_user_id = NoneValue
               THEN /\ connected_user_id' = data.sender_id
                    /\ registered' = data.sender_id
                    /\ match_state' = set_user_chatting(data.sender_id)
               ELSE UNCHANGED <<connected_user_id, registered, match_state>>
            /\ message' = [message_id |-> next_id, sender_id |-> data.sender_id,
                           content |-> data.content]
            /\ next_id' = next_id + 1
            /\ pc' = "save"
            /\ errors' = errors
    /\ UNCHANGED <<chat_room, saved, broadcasts, scoringVars>>

\* Lines 83-94: the message is saved.
SaveMessage ==
    /\ pc = "save"
    /\ saved' = saved \cup {message}
    /\ pc' = "broadcast"
    /\ UNCHANGED <<chat_room, connected_user_id, frame, frames, message, next_id,
                   errors, broadcasts, registered, match_state, scoringVars>>

\* Lines 97-105: the message is broadcast to the room.
BroadcastMessage ==
    /\ pc = "broadcast"
    /\ broadcasts' = broadcasts \cup {message}
    /\ pc' = "receive"
    /\ UNCHANGED <<chat_room, connected_user_id, frame, frames, message, next_id,
                   errors, saved, registered, match_state, scoringVars>>

\* Lines 58 and 107-111: the client goes away, receive_text raises
\* WebSocketDisconnect, and the state of the user the manager had for the
\* socket is cleared.
Disconnect ==
    /\ pc = "receive"
    /\ registered' = NoneValue
    /\ match_state' = clear_user_state(manager_disconnect)
    /\ pc' = "done"
    /\ UNCHANGED <<chat_room, connected_user_id, frame, frames, message, next_id,
                   errors, saved, broadcasts, scoringVars>>

NextChat ==
    \/ \E found \in BOOLEAN : Connect(found)
    \/ \E data \in Frames : ReceiveMessage(data)
    \/ SaveMessage
    \/ BroadcastMessage
    \/ Disconnect

SpecChat == Init /\ [][NextChat]_vars

\* ------------------------------------------------------------------------
\* Properties
\* ------------------------------------------------------------------------
\* What the lexicon and the heuristic patterns add for one answer.
MatchPart(ans, dim) == ApplyHeuristics(ans, dim, MatchLexicon(ans, dim, ZeroScores))

\* What the style corrector adds for one answer when it is applied.
StylePart(ans, dim) == apply_style_correction(ans, dim, ZeroScores)

\* A lexicon entry or a heuristic pattern of the dimension matched the answer.
AnyMatch(ans, dim) == KeywordMatched(dim, ans) \/ HeuristicMatched(dim, ans)

\* What one text answer is to add under the gating rule: the matches, and
\* the style part exactly when there is no match.
GatedPart(ans, dim) ==
    IF AnyMatch(ans, dim) THEN MatchPart(ans, dim)
    ELSE Plus(MatchPart(ans, dim), StylePart(ans, dim))

GatedDimensions == {"SN", "TF", "JP"}

\* C1: for a text answer scored against SN, TF or JP, each of the three
\* scorers adds the lexicon and heuristic matches, plus the style
\* corrector's part if and only if nothing matched; with a match the style
\* corrector adds nothing.
C1_StyleGate ==
    (n > 0 /\ IsStr(last)) =>
        /\ (n - 1 < 12 /\ get_dimension_for_question_2(n - 1) \in GatedDimensions) =>
               pscores = Plus(pprev, GatedPart(last, get_dimension_for_question_2(n - 1)))
        /\ (~fraised /\ RunDimension(n - 1) \in GatedDimensions) =>
               fscores = Plus(fprev, GatedPart(last, RunDimension(n - 1)))
        /\ (single # NoCall /\ get_dimension_for_question_2(n - 1) \in GatedDimensions) =>
               \A t \in DOMAIN single.scores :
                   single.scores[t] = GatedPart(last, get_dimension_for_question_2(n - 1))[t]

\* A text answer of a gated dimension that matched and carries style
\* markers has been scored by all three scorers.
C1_Witness ==
    /\ n > 0 /\ n <= 12 /\ IsStr(last) /\ ~fraised /\ single # NoCall
    /\ RunDimension(n - 1) \in GatedDimensions
    /\ AnyMatch(last, RunDimension(n - 1))
    /\ StylePart(last, RunDimension(n - 1)) # ZeroScores

\* 1 if the condition holds, else 0
Bonus(cond) == IF cond THEN 1 ELSE 0

\* The total weight of the matching lexicon entries of one trait.
LexiconWeight(dim, trait, ans) ==
    KeywordSum(Keywords(dim, trait), Len(Keywords(dim, trait)), ans)

IsEICall == call.fn = "analyze_single_answer" /\ call.dimension = "EI"

\* C2 as stated: for every EI answer, matched or not, more than 50
\* characters give +1 E and fewer than 20 give +1 I on top of the lexicon
\* weights.
C2_StyleAlwaysOnEI ==
    IsEICall =>
        /\ call.ret.scores["E"] = LexiconWeight("EI", "E", call.answer)
                                  + Bonus(StrLen(call.answer) > 50)
        /\ call.ret.scores["I"] = LexiconWeight("EI", "I", call.answer)
                                  + Bonus(StrLen(call.answer) < 20)

\* C2 amended: for EI the length bonus is added only when no E or I
\* lexicon entry matched; with a match the totals are the lexicon weights.
C2_StyleGatedOnEI ==
    IsEICall =>
        LET matched == KeywordMatched("EI", call.answer)
        IN  /\ call.ret.scores["E"] = LexiconWeight("EI", "E", call.answer)
                                      + Bonus(~matched /\ StrLen(call.answer) > 50)
            /\ call.ret.scores["I"] = LexiconWeight("EI", "I", call.answer)
                                      + Bonus(~matched /\ StrLen(call.answer) < 20)

\* An EI answer longer than 50 characters with an E match got the lexicon
\* weight and no length bonus.
C2_Witness ==
    /\ IsEICall
    /\ StrLen(call.answer) > 50
    /\ KeywordMatched("EI", call.answer)
    /\ call.ret.scores["E"] = LexiconWeight("EI", "E", call.answer)
    /\ call.ret.scores["E"] > 0

\* The dimension whose winner is the k-th letter of a label.
DimensionAt(k) == <<"EI", "SN", "TF", "JP">>[k]

\* The letter is a trait of the dimension and, on a tie, the given side.
ResolvedWithTie(letter, dim, scores, tieSide) ==
    /\ letter \in {TraitsOf(dim)[1], TraitsOf(dim)[2]}
    /\ (scores[TraitsOf(dim)[1]] = scores[TraitsOf(dim)[2]]) => letter = TraitsOf(dim)[tieSide]
    /\ (scores[TraitsOf(dim)[1]] > scores[TraitsOf(dim)[2]]) => letter = TraitsOf(dim)[1]
    /\ (scores[TraitsOf(dim)[1]] < scores[TraitsOf(dim)[2]]) => letter = TraitsOf(dim)[2]

\* Every scorer resolves every dimension it resolves to one trait, ties
\* going to the given side.
WinnersWithTie(tieSide) ==
    loaded = 2 =>
        /\ \A k \in 1..4 :
               calculate_partial_mbti.mbti[k] # "X" =>
                   ResolvedWithTie(calculate_partial_mbti.mbti[k], DimensionAt(k), pscores, tieSide)
        /\ ~fraised =>
               \A k \in 1..4 :
                   ResolvedWithTie(run_analysis.mbti[k], DimensionAt(k), fscores, tieSide)
        /\ single # NoCall =>
               \E k \in 1..4 :
                   /\ DOMAIN single.scores = {TraitsOf(DimensionAt(k))[1], TraitsOf(DimensionAt(k))[2]}
                   /\ ResolvedWithTie(single.side, DimensionAt(k), single.scores, tieSide)

\* C3 as stated: every scorer picks exactly one trait per dimension and a
\* tie goes to side two (I, N, F, P).
C3_TieToSideTwo == WinnersWithTie(2)

\* C3 amended: every scorer picks exactly one trait for every dimension it
\* resolves, and a tie goes to side one (E, S, T, J).
C3_TieToSideOne == WinnersWithTie(1)

\* A complete session whose T and F totals are equal and positive: both
\* session scorers answer T, and the last answer was scored on its own.
C3_Witness ==
    /\ n = 12 /\ ~fraised /\ single # NoCall
    /\ fscores["T"] = fscores["F"] /\ fscores["T"] > 0
    /\ pscores["T"] = pscores["F"]
    /\ run_analysis.mbti[3] = "T"
    /\ calculate_partial_mbti.mbti[3] = "T"

\* C4: get_dimension_for_question returns EI for 0..2, SN for 3..5, TF for
\* 6..8, JP for 9..11 and the empty string (no dimension) from 12 on, and
\* this is the definition in effect once the module is loaded.
C4_DimensionForQuestion ==
    call.fn = "get_dimension_for_question" =>
        /\ loaded = 2
        /\ call.question_index \in 0..2 => call.ret = "EI"
        /\ call.question_index \in 3..5 => call.ret = "SN"
        /\ call.question_index \in 6..8 => call.ret = "TF"
        /\ call.question_index \in 9..11 => call.ret = "JP"
        /\ call.question_index >= 12 => call.ret = ""

\* The function was called for an index past the last question and
\* returned no dimension.
C4_Witness ==
    /\ call.fn = "get_dimension_for_question"
    /\ call.question_index >= 12
    /\ call.ret = ""

\* C5: in partial mode and in final mode an answer appended after the
\* 12th leaves every trait total, the label and every confidence value as
\* they were for the list without it.
C5_BeyondTwelveSkipped ==
    n > 12 =>
        /\ pscores = pprev
        /\ PartialLabel(n, pscores) = PartialLabel(n - 1, pprev)
        /\ ~fraised =>
               /\ fscores = fprev
               /\ FinalLabel(fscores) = FinalLabel(fprev)
               /\ Confidence(fscores) = Confidence(fprev)

\* C6: in partial mode and in final mode a non-text entry adds nothing to
\* any trait total, still counts as a position for the unlocking of the
\* label, and does not make the scorer raise.
C6_NonTextEntrySkipped ==
    (n > 0 /\ ~IsStr(last)) =>
        /\ pscores = pprev
        /\ \A k \in 1..4 : (calculate_partial_mbti.mbti[k] # "X") <=> (n >= 3 * k)
        /\ run_analysis.raised = ""
        /\ fscores = fprev

\* C7: the partial label always has 4 characters; its k-th character is a
\* trait of the k-th dimension if and only if at least 3k answers are
\* present, and is 'X' otherwise.
C7_PartialLabelShape ==
    /\ Len(calculate_partial_mbti.mbti) = 4
    /\ \A k \in 1..4 :
           LET letter == calculate_partial_mbti.mbti[k]
               traits == {TraitsOf(DimensionAt(k))[1], TraitsOf(DimensionAt(k))[2]}
           IN  /\ (letter \in traits) <=> (n >= 3 * k)
               /\ (n < 3 * k) => letter = "X"

\* Five answers are present and the label is E or I followed by XXX.
C7_Witness ==
    /\ n = 5
    /\ calculate_partial_mbti.mbti[1] \in {"E", "I"}
    /\ SubSeq(calculate_partial_mbti.mbti, 2, 4) = <<"X", "X", "X">>

\* C8: the confidence of two trait totals lies between 0 and 100 (0 and
\* 1000 tenths) and is 0 exactly when the two totals are equal.
C8_ConfidenceZeroIffEqual ==
    (call.fn = "get_conf" /\ call.ret # -1) =>
        /\ call.ret >= 0
        /\ call.ret <= 1000
        /\ (call.ret = 0) <=> (call.a = call.b)

\* The trait opposing a trait of a dimension.
Opposing(dim, trait) ==
    IF trait = TraitsOf(dim)[1] THEN TraitsOf(dim)[2] ELSE TraitsOf(dim)[1]

\* C9: scoring an answer with one more occurrence of a lexicon keyword of
\* trait X gives X a score that is not lower, and the opposing trait a
\* score that is not higher, than scoring the answer without it.
C9_KeywordMonotone ==
    prevcall # NoCall =>
        LET X == prevcall.trait
            Y == Opposing(prevcall.dimension, prevcall.trait)
        IN  /\ call.ret.scores[X] >= prevcall.ret.scores[X]
            /\ call.ret.scores[Y] <= prevcall.ret.scores[Y]

\* C10: for EI and an answer with no E or I lexicon match, fewer than 20
\* characters give I = 1, E = 0, side I, score 1; more than 50 give E = 1,
\* I = 0, side E, score 1; 20 to 50 characters give E = I = 0.
C10_LengthOnlyEI ==
    (IsEICall /\ ~KeywordMatched("EI", call.answer)) =>
        LET len == StrLen(call.answer)
            ret == call.ret
        IN  /\ len < 20 =>
                   ret.scores["I"] = 1 /\ ret.scores["E"] = 0 /\ ret.side = "I" /\ ret.score = 1
            /\ len > 50 =>
                   ret.scores["E"] = 1 /\ ret.scores["I"] = 0 /\ ret.side = "E" /\ ret.score = 1
            /\ (len >= 20 /\ len <= 50) =>
                   ret.scores["E"] = 0 /\ ret.scores["I"] = 0

\* An unmatched EI answer of more than 50 characters was scored E = 1.
C10_Witness ==
    /\ IsEICall
    /\ ~KeywordMatched("EI", call.answer)
    /\ StrLen(call.answer) > 50
    /\ call.ret.side = "E"
    /\ call.ret.score = 1

\* The accumulator of a run went from `before` to `after` over one answer:
\* no total is negative and none went down.
Grew(before, after) ==
    \A t \in AllTraits : 0 <= before[t] /\ before[t] <= after[t]

\* C11: a scoring run starts with all 8 totals at zero, and after every
\* prefix of the answers each total of calculate_partial_mbti and of
\* run_analysis is >= 0 and not lower than after the previous answer; the
\* totals of a per-answer run are >= 0 as well.
C11_TotalsNeverDecrease ==
    /\ n = 0 => pscores = ZeroScores /\ fscores = ZeroScores
    /\ Grew(pprev, pscores)
    /\ Grew(fprev, fscores)
    /\ single # NoCall => \A t \in DOMAIN single.scores : single.scores[t] >= 0

\* The last answer of a session raised a total of run_analysis through the
\* lexicon, and an earlier one left the totals above zero.
C11_Witness ==
    /\ n > 1
    /\ ~fraised
    /\ IsStr(last)
    /\ KeywordMatched(RunDimension(n - 1), last)
    /\ fprev # ZeroScores
    /\ \E t \in AllTraits : fscores[t] > fprev[t]
    /\ pscores # pprev

OwnTraits ==
    LET dim == get_dimension_for_question_2(n - 1)
    IN  IF dim = "" THEN {} ELSE {TraitsOf(dim)[1], TraitsOf(dim)[2]}

\* C13: when every answer of the session is text, each total of run_analysis
\* is the sum over the indexes 0..11 of the score analyze_single_answer gives
\* the trait for the answer of the index and the dimension of the index, and
\* the answer submitted last changed no total outside its own dimension.
C13_TotalIsSumOfSingles ==
    (n > 0 /\ ~fraised) =>
        /\ fscores = ssum
        /\ \A t \in AllTraits \ OwnTraits : fscores[t] = fprev[t]

\* Up to twelve text answers the totals of run_analysis are the sum of the
\* per-answer scores.
C13_SumUpToTwelve ==
    (n > 0 /\ n <= 12 /\ ~fraised) =>
        /\ fscores = ssum
        /\ \A t \in AllTraits \ OwnTraits : fscores[t] = fprev[t]

\* Twelve text answers were scored and the totals of all four dimensions
\* are the sums of per-answer scores above zero.
C13_Witness ==
    /\ n = 12
    /\ ~fraised
    /\ fscores = ssum
    /\ \A dim \in Dimensions :
           ssum[TraitsOf(dim)[1]] + ssum[TraitsOf(dim)[2]] > 0

\* C14: for exactly 12 answers that are all text, calculate_partial_mbti and
\* run_analysis return the same 8 totals and the same 4-letter label, and
\* the label has no "X".
C14_PartialEqualsFinalAtTwelve ==
    (n = 12 /\ ~fraised) =>
        /\ calculate_partial_mbti.scores = run_analysis.scores
        /\ calculate_partial_mbti.mbti = run_analysis.mbti
        /\ \A k \in 1..4 : calculate_partial_mbti.mbti[k] # "X"

\* Twelve text answers were scored, the last one with a lexicon and a
\* pattern match, and every dimension has a total above zero.
C14_Witness ==
    /\ n = 12
    /\ ~fraised
    /\ HeuristicMatched("JP", last)
    /\ KeywordMatched("JP", last)
    /\ \A dim \in Dimensions :
           pscores[TraitsOf(dim)[1]] + pscores[TraitsOf(dim)[2]] > 0
    /\ pscores["S"] # pscores["N"]

\* C15: once the handler of a connection has finished, the user it set to
\* the chatting state has had the state cleared and is not left chatting.
C15_ClearedWhenHandlerEnds ==
    (pc = "done" /\ connected_user_id # NoneValue)
        => match_state[connected_user_id] = "none"

\* A frame of the connection was rejected by the checks of lines 64 and 69.
Rejected(data) ==
    /\ data.kind = "object"
    /\ \/ Falsy(data.sender_id)
       \/ Falsy(data.content)
       \/ data.sender_id \notin Participants

\* Every broadcast message is a saved row with the same id, and every saved
\* row is of an existing room, with sender_id and content and from one of
\* the two participants.
SavedBeforeBroadcast ==
    /\ broadcasts \subseteq saved
    /\ \A row \in saved :
           /\ chat_room.found
           /\ ~Falsy(row.sender_id)
           /\ ~Falsy(row.content)
           /\ row.sender_id \in Participants
           /\ \A other \in saved : other.message_id = row.message_id => other = row

\* The iteration of a rejected frame sends one error reply and changes
\* neither the table, the broadcasts, the registration nor a match state,
\* and hands no message on to be saved.
RejectedLeavesNoTrace ==
    (frames' = frames + 1 /\ Rejected(frame')) =>
        /\ errors' = errors + 1
        /\ pc' = "receive"
        /\ UNCHANGED <<saved, broadcasts, message, registered,
                       connected_user_id, match_state>>

\* C16: a message is broadcast only after it was saved under the same
\* message id; it is saved only if the room exists, sender_id and content
\* are non-empty and the sender is a participant of the room; a rejected
\* message gets an error reply, is neither saved nor broadcast, registers
\* no user and sets no chatting state.
C16_SavedThenBroadcast ==
    /\ []SavedBeforeBroadcast
    /\ [][RejectedLeavesNoTrace]_vars

\* After a rejected frame, a message of a participant is saved and not yet
\* broadcast, while an earlier one is both saved and broadcast.
C16_Witness ==
    /\ pc = "broadcast"
    /\ errors > 0
    /\ message \in saved
    /\ message \notin broadcasts
    /\ broadcasts # {}
    /\ connected_user_id # NoneValue

====
